---- MODULE Spec2Model ----
(***************************************************************************)
(* Model of the retrieval-and-synthesis pipeline of backend/agent.py       *)
(* (AdvancedRAGRetriever) together with the parts of backend/db.py it      *)
(* calls.  Python values are tagged records, an exception is the record    *)
(* [exc |-> name], and every pipeline stage is an operator translated from *)
(* the method of the same name.                                            *)
(***************************************************************************)
EXTENDS Integers, Sequences, FiniteSets, TLC

VARIABLES
    top_k_per_subquery, \* self.top_k_per_subquery
    max_context_length, \* self.max_context_length
    pc,             \* position of retrieve_and_answer (the stage reached)
    query,          \* argument query
    stream,         \* argument stream
    documents,      \* db.documents, in the order find() yields its records
    db_up,          \* FALSE once db.documents.find has raised
    llm_calls,      \* log of the language-model calls made so far
    lookups,        \* log of the vector-store lookups of the fan-out
    subqueries,     \* local subqueries
    all_chunks,     \* local all_chunks
    unique_chunks,  \* local unique_chunks
    unique_docs,    \* local unique_docs
    final_chunks,   \* local final_chunks
    context_string, \* local context_string
    final_answer,   \* local final_answer
    error,          \* the exception bound to e in the except clause
    returned,       \* what the caller of retrieve_and_answer receives
    find_calls,     \* log of the db.documents.find requests made so far
    ep,             \* position of query_stream_endpoint and its event_generator
    recent,         \* what db.conversations.count_documents answers
    status,         \* HTTP status of the response, 0 while there is none
    events,         \* the server-sent events emitted so far
    tasks,          \* the background tasks created so far
    runs            \* the frames of the concurrent invocations

\* the state of the streaming endpoint and of the concurrent invocations
endpoint_vars == << ep, recent, status, events, tasks, runs >>

vars == << top_k_per_subquery, max_context_length, pc, query, stream, documents, db_up, llm_calls, lookups,
           subqueries, all_chunks, unique_chunks, unique_docs, final_chunks,
           context_string, final_answer, error, returned, find_calls,
           endpoint_vars >>

\* no request to the streaming endpoint and no concurrent invocation
NoEndpoint ==
    /\ ep = "None"
    /\ recent = [ok |-> 0]
    /\ status = 0
    /\ events = << >>
    /\ tasks = << >>
    /\ runs = << >>

(***************************************************************************)
(* Python values and exceptions.                                           *)
(***************************************************************************)
PyStr(s) == [str |-> s]
PyNum(n) == [num |-> n]
PyList(xs) == [list |-> xs]
PyDict(keys) == [dict |-> keys]
PyNone == [none |-> TRUE]

IsStr(v) == DOMAIN v = {"str"}
IsList(v) == DOMAIN v = {"list"}
IsDict(v) == DOMAIN v = {"dict"}

\* a call either raises, Raise(e), or returns a value, Ok(v)
Raise(e) == [exc |-> e]
Ok(v) == [ok |-> v]
IsExc(r) == DOMAIN r = {"exc"}

NotSet == [unset |-> TRUE]

\* the same for a local that will hold a list, and for one that will hold a
\* plain string: no list of chunks and no built context equals them
NotSetList == <<NotSet>>
NotSetText == "<unassigned>"

\* dict.get(key, default)
Get(d, key, default) == IF key \in DOMAIN d THEN d[key] ELSE default

\* dict.setdefault(key, default), as a new mapping
SetDefault(d, key, default) ==
    IF key \in DOMAIN d THEN d
    ELSE [k \in DOMAIN d \cup {key} |-> IF k = key THEN default ELSE d[k]]

\* d[key] = value, as a new mapping
SetItem(d, key, value) ==
    [k \in DOMAIN d \cup {key} |-> IF k = key THEN value ELSE d[k]]

\* len(v) is defined for list, str and dict and a TypeError for other values
HasLen(v) == IsList(v) \/ IsStr(v) \/ IsDict(v)

PyLen(v) ==
    IF IsList(v) THEN Len(v.list)
    ELSE IF IsStr(v) THEN Len(v.str)
    ELSE Len(v.dict)

RECURSIVE Chars(_)
Chars(s) == IF Len(s) = 0 THEN << >> ELSE <<PyStr(Head(s))>> \o Chars(Tail(s))

\* the items a for loop over v visits: list items, characters, dict keys
PyIter(v) ==
    IF IsList(v) THEN v.list
    ELSE IF IsStr(v) THEN Chars(v.str)
    ELSE [i \in 1..Len(v.dict) |-> PyStr(v.dict[i])]

Range(s) == {s[i] : i \in 1..Len(s)}

(***************************************************************************)
(* The language model: llm.invoke either raises or returns a completion.   *)
(***************************************************************************)
Queries == {"q1", "q2"}

Completions ==
    { "not json", "[]", "[\"a\"]", "[\"a\",\"b\"]", "[\"a\",\"b\",\"c\"]",
      "[\"a\",\"b\",\"c\",\"d\"]", "\"ab\"", "\"abc\"", "7", "null",
      "{\"k\":1}", "{\"a\":1,\"b\":2,\"c\":3}", "[1,2,3]" }

LLMOutcomes == {Raise("APIError")} \cup {Ok([content |-> c]) : c \in Completions}

\* json.loads on the completions above
json_loads(text) ==
    CASE text = "[]" -> Ok(PyList(<< >>))
      [] text = "[\"a\"]" -> Ok(PyList(<<PyStr("a")>>))
      [] text = "[\"a\",\"b\"]" -> Ok(PyList(<<PyStr("a"), PyStr("b")>>))
      [] text = "[\"a\",\"b\",\"c\"]" ->
            Ok(PyList(<<PyStr("a"), PyStr("b"), PyStr("c")>>))
      [] text = "[\"a\",\"b\",\"c\",\"d\"]" ->
            Ok(PyList(<<PyStr("a"), PyStr("b"), PyStr("c"), PyStr("d")>>))
      [] text = "\"ab\"" -> Ok(PyStr("ab"))
      [] text = "\"abc\"" -> Ok(PyStr("abc"))
      [] text = "7" -> Ok(PyNum(7))
      [] text = "null" -> Ok(PyNone)
      [] text = "{\"k\":1}" -> Ok(PyDict(<<"k">>))
      [] text = "{\"a\":1,\"b\":2,\"c\":3}" -> Ok(PyDict(<<"a", "b", "c">>))
      [] text = "[1,2,3]" -> Ok(PyList(<<PyNum(1), PyNum(2), PyNum(3)>>))
      [] OTHER -> Raise("JSONDecodeError")

(***************************************************************************)
(* generate_subqueries                                                     *)
(***************************************************************************)
VariationOffByOne(original_query, n) ==
    PyStr(original_query \o " - variation " \o ToString(n - 1))

Variation(original_query, n) ==
    PyStr(original_query \o " - variation " \o ToString(n))

RECURSIVE PadSubqueries(_, _)
PadSubqueries(items, original_query) ==
    IF Len(items) < 3
    THEN PadSubqueries(Append(items, Variation(original_query, Len(items) + 1)),
                       original_query)
    ELSE items

FallbackEmpty(original_query) == PyList(<< >>)

Fallback(original_query) == PyList(<<PyStr(original_query)>>)

generate_subqueries(original_query, llm_outcome) ==
    IF IsExc(llm_outcome) THEN Fallback(original_query)
    ELSE LET loaded == json_loads(llm_outcome.ok.content)
         IN  IF IsExc(loaded) THEN Fallback(original_query)
             ELSE IF ~HasLen(loaded.ok) THEN Fallback(original_query)
             ELSE IF PyLen(loaded.ok) < 3
                  THEN IF IsList(loaded.ok)
                       THEN PyList(PadSubqueries(loaded.ok.list, original_query))
                       ELSE Fallback(original_query)
                  ELSE loaded.ok

(***************************************************************************)
(* The vector store (db.chunks) and retrieve_relevant_chunks.              *)
(***************************************************************************)
TopK == 1
MaxContextLength == 5

ChunkStore ==
    { [chunk_id |-> "d1_0", document_id |-> "d1", content |-> PyStr("x"),
       metadata |-> [url |-> "u1", title |-> "t1"], score |-> 3],
      [chunk_id |-> "d2_0", document_id |-> "d2", content |-> PyStr("y"),
       metadata |-> [url |-> "u2", title |-> "t2"], score |-> 2],
      [document_id |-> "d2", content |-> PyNone,
       metadata |-> [url |-> "u2", title |-> "t2"], score |-> 1] }

\* the result lists $vectorSearch can yield: at most limit distinct stored
\* chunks, best score first
StoreRankings ==
    UNION { { r \in [1..n -> ChunkStore] :
                \A i, j \in 1..n : i < j => r[i].score > r[j].score }
            : n \in 0..Cardinality(ChunkStore) }

Rankings(limit) == { r \in StoreRankings : Len(r) <= limit }

\* what one lookup meets: get_embedding raises, the aggregate raises, or the
\* aggregate yields a ranking
LookupEnvs(limit) ==
    { [embedding |-> Raise("APIError")] } \cup
    { [embedding |-> Ok("vector"), search |-> Raise("OperationFailure")] } \cup
    { [embedding |-> Ok("vector"), search |-> Ok(r)] : r \in Rankings(limit) }

vector_search_chunks(search, limit) ==
    IF IsExc(search) THEN << >> ELSE search.ok

Defaults(result) ==
    SetDefault(SetDefault(SetDefault(SetDefault(SetDefault(SetDefault(result,
        "chunk_id", "unknown"), "document_id", "unknown"), "content", PyStr("")),
        "enriched_content", PyStr("")), "metadata", << >>), "score", 0)

retrieve_relevant_chunks(env, top_k) ==
    IF IsExc(env.embedding) THEN Raise("HTTPException")
    ELSE LET results == vector_search_chunks(env.search, top_k)
         IN  Ok([i \in 1..Len(results) |-> Defaults(results[i])])

(***************************************************************************)
(* retrieve_for_subqueries                                                 *)
(***************************************************************************)
TagChunksZeroBased(chunks, subquery, i) ==
    [k \in 1..Len(chunks) |->
        SetItem(SetItem(chunks[k], "source_subquery", subquery),
                "subquery_index", i - 1)]

TagChunks(chunks, subquery, i) ==
    [k \in 1..Len(chunks) |->
        SetItem(SetItem(chunks[k], "source_subquery", subquery),
                "subquery_index", i)]

RECURSIVE RetrieveLoopAbort(_, _, _, _, _)
RetrieveLoopAbort(items, i, envs, top_k, chunks_so_far) ==
    IF i > Len(items) THEN chunks_so_far
    ELSE LET chunks == retrieve_relevant_chunks(envs[i], top_k)
         IN  IF IsExc(chunks)
             THEN chunks_so_far
             ELSE RetrieveLoopAbort(items, i + 1, envs, top_k,
                               chunks_so_far \o TagChunks(chunks.ok, items[i], i))

RECURSIVE RetrieveLoop(_, _, _, _, _)
RetrieveLoop(items, i, envs, top_k, chunks_so_far) ==
    IF i > Len(items) THEN chunks_so_far
    ELSE LET chunks == retrieve_relevant_chunks(envs[i], top_k)
         IN  IF IsExc(chunks)
             THEN RetrieveLoop(items, i + 1, envs, top_k, chunks_so_far)
             ELSE RetrieveLoop(items, i + 1, envs, top_k,
                               chunks_so_far \o TagChunks(chunks.ok, items[i], i))

retrieve_for_subqueries(subqs, envs, top_k) ==
    IF ~HasLen(subqs) THEN Raise("TypeError")
    ELSE Ok(RetrieveLoop(PyIter(subqs), 1, envs, top_k, << >>))

(***************************************************************************)
(* deduplicate_chunks                                                      *)
(***************************************************************************)
\* hashlib.md5(text.encode('utf-8')).hexdigest(): distinct texts of the model
\* have distinct digests
md5_hexdigest_of_nothing(text) == "md5()"

md5_hexdigest(text) == "md5(" \o text \o ")"

SeenChunkIdNever(chunk_id, seen_chunk_ids) == FALSE

SeenChunkId(chunk_id, seen_chunk_ids) ==
    chunk_id # "" /\ chunk_id \in seen_chunk_ids

SeenContentNever(content_hash, seen_content_hashes) == FALSE

SeenContent(content_hash, seen_content_hashes) ==
    content_hash \in seen_content_hashes

\* a loop that also records the chunk_id of a chunk it drops for its content
RECURSIVE DedupLoopRecordingDropped(_, _, _, _, _)
DedupLoopRecordingDropped(chunks, i, unique, seen_chunk_ids, seen_content_hashes) ==
    IF i > Len(chunks) THEN Ok(unique)
    ELSE LET chunk == chunks[i]
             chunk_id == Get(chunk, "chunk_id", "")
             content == Get(chunk, "content", PyStr(""))
             ids == IF chunk_id # "" THEN seen_chunk_ids \cup {chunk_id}
                    ELSE seen_chunk_ids
         IN  IF SeenChunkId(chunk_id, seen_chunk_ids)
             THEN DedupLoopRecordingDropped(chunks, i + 1, unique,
                                            seen_chunk_ids, seen_content_hashes)
             ELSE IF ~IsStr(content) THEN Raise("AttributeError")
             ELSE LET content_hash == md5_hexdigest(content.str)
                  IN  IF SeenContent(content_hash, seen_content_hashes)
                      THEN DedupLoopRecordingDropped(chunks, i + 1, unique, ids,
                                                     seen_content_hashes)
                      ELSE DedupLoopRecordingDropped(chunks, i + 1,
                               Append(unique, chunk), ids,
                               seen_content_hashes \cup {content_hash})

RECURSIVE DedupLoop(_, _, _, _, _)
DedupLoop(chunks, i, unique, seen_chunk_ids, seen_content_hashes) ==
    IF i > Len(chunks) THEN Ok(unique)
    ELSE LET chunk == chunks[i]
             chunk_id == Get(chunk, "chunk_id", "")
             content == Get(chunk, "content", PyStr(""))
         IN  IF SeenChunkId(chunk_id, seen_chunk_ids)
             THEN DedupLoop(chunks, i + 1, unique, seen_chunk_ids,
                            seen_content_hashes)
             ELSE IF ~IsStr(content) THEN Raise("AttributeError")
             ELSE LET content_hash == md5_hexdigest(content.str)
                  IN  IF SeenContent(content_hash, seen_content_hashes)
                      THEN DedupLoop(chunks, i + 1, unique, seen_chunk_ids,
                                     seen_content_hashes)
                      ELSE DedupLoop(chunks, i + 1, Append(unique, chunk),
                                     IF chunk_id # ""
                                     THEN seen_chunk_ids \cup {chunk_id}
                                     ELSE seen_chunk_ids,
                                     seen_content_hashes \cup {content_hash})

ScoreKey(x) == Get(x, "score", 0)

\* list.sort(key, reverse=True) is stable: an element goes behind every
\* element whose key is at least its own
RECURSIVE InsertBeforeTies(_, _)
InsertBeforeTies(sorted, x) ==
    IF sorted = << >> THEN <<x>>
    ELSE IF ScoreKey(Head(sorted)) > ScoreKey(x)
         THEN <<Head(sorted)>> \o InsertBeforeTies(Tail(sorted), x)
         ELSE <<x>> \o sorted

RECURSIVE InsertByScore(_, _)
InsertByScore(sorted, x) ==
    IF sorted = << >> THEN <<x>>
    ELSE IF ScoreKey(Head(sorted)) >= ScoreKey(x)
         THEN <<Head(sorted)>> \o InsertByScore(Tail(sorted), x)
         ELSE <<x>> \o sorted

\* a sort that is not stable: equal keys come out in reverse
RECURSIVE SortByScoreUnstable(_)
SortByScoreUnstable(xs) ==
    IF xs = << >> THEN << >>
    ELSE InsertBeforeTies(SortByScoreUnstable(SubSeq(xs, 1, Len(xs) - 1)),
                          xs[Len(xs)])

RECURSIVE SortByScore(_)
SortByScore(xs) ==
    IF xs = << >> THEN << >>
    ELSE InsertByScore(SortByScore(SubSeq(xs, 1, Len(xs) - 1)), xs[Len(xs)])

deduplicate_chunks(chunks) ==
    IF chunks = << >> THEN Ok(<< >>)
    ELSE LET unique_result == DedupLoop(chunks, 1, << >>, {}, {})
         IN  IF IsExc(unique_result) THEN unique_result
             ELSE Ok(SortByScore(unique_result.ok))

(***************************************************************************)
(* get_full_docs and get_documents_by_ids over db.documents.               *)
(***************************************************************************)
DocStore ==
    { [document_id |-> "d1", title |-> "t1", url |-> "u1",
       content |-> PyStr("abc")],
      [document_id |-> "d2", title |-> "t2", url |-> "u2",
       content |-> PyStr("abcd")] }

\* the orders in which find() can yield the stored documents
DocumentOrders ==
    { o \in [1..Cardinality(DocStore) -> DocStore] :
        \A i, j \in 1..Cardinality(DocStore) : i # j => o[i] # o[j] }

get_documents_by_ids_uncaught(document_ids, collection, find_ok) ==
    IF ~find_ok THEN Raise("OperationFailure")
    ELSE Ok(SelectSeq(collection, LAMBDA doc : doc.document_id \in document_ids))

\* find() raising is caught and answered with the empty list
get_documents_by_ids(document_ids, collection, find_ok) ==
    IF ~find_ok THEN Ok(<< >>)
    ELSE Ok(SelectSeq(collection, LAMBDA doc : doc.document_id \in document_ids))

doc_ids_with_blank(chunk_ids) ==
    { Get(chunk_ids[i], "document_id", "") : i \in 1..Len(chunk_ids) } \cup {""}

\* list(set([chunk.get('document_id', '') for chunk in chunk_ids]))
doc_ids(chunk_ids) ==
    { Get(chunk_ids[i], "document_id", "") : i \in 1..Len(chunk_ids) }

get_full_docs(chunk_ids, collection, find_ok) ==
    get_documents_by_ids(doc_ids(chunk_ids), collection, find_ok)

(***************************************************************************)
(* truncate_context                                                        *)
(***************************************************************************)
FitsStrictly(total_length, content_length, max_length) ==
    total_length + content_length < max_length

Fits(total_length, content_length, max_length) ==
    total_length + content_length <= max_length

\* a loop that skips a document that does not fit and goes on
RECURSIVE TruncateLoopSkipping(_, _, _, _, _)
TruncateLoopSkipping(chunks, i, total_length, truncated_chunks, max_length) ==
    IF i > Len(chunks) THEN Ok(truncated_chunks)
    ELSE LET content == Get(chunks[i], "content", PyStr(""))
         IN  IF ~HasLen(content) THEN Raise("TypeError")
             ELSE IF Fits(total_length, PyLen(content), max_length)
                  THEN TruncateLoopSkipping(chunks, i + 1,
                           total_length + PyLen(content),
                           Append(truncated_chunks, chunks[i]), max_length)
                  ELSE TruncateLoopSkipping(chunks, i + 1, total_length,
                                            truncated_chunks, max_length)

RECURSIVE TruncateLoop(_, _, _, _, _)
TruncateLoop(chunks, i, total_length, truncated_chunks, max_length) ==
    IF i > Len(chunks) THEN Ok(truncated_chunks)
    ELSE LET content == Get(chunks[i], "content", PyStr(""))
         IN  IF ~HasLen(content) THEN Raise("TypeError")
             ELSE IF Fits(total_length, PyLen(content), max_length)
                  THEN TruncateLoop(chunks, i + 1, total_length + PyLen(content),
                                    Append(truncated_chunks, chunks[i]), max_length)
                  ELSE Ok(truncated_chunks)

truncate_context(chunks, max_length) ==
    IF chunks = << >> THEN Ok(<< >>)
    ELSE TruncateLoop(chunks, 1, 0, << >>, max_length)

(***************************************************************************)
(* build_context_string                                                    *)
(***************************************************************************)
NoContext == "No relevant context found."

\* "{score:.3f}" for the whole-number scores of the model
Format3f(score) == ToString(score) \o ".000"

\* "{value}" inside an f-string
FStr(v) == IF IsStr(v) THEN v.str ELSE "None"

ContextPart(i, chunk) ==
    LET content == Get(chunk, "content", PyStr(""))
        score == Get(chunk, "score", 0)
        source == Get(Get(chunk, "metadata", << >>), "url", "Unknown Source")
        title == Get(Get(chunk, "metadata", << >>), "title", "Unknown Title")
    IN  "\n<context_chunk id=\"" \o ToString(i) \o "\" score=\""
        \o Format3f(score) \o "\" source_url=\"" \o source \o "\" title=\""
        \o title \o "\">\n" \o FStr(content) \o "\n</context_chunk>"

RECURSIVE Join(_, _)
Join(sep, parts) ==
    IF Len(parts) = 0 THEN ""
    ELSE IF Len(parts) = 1 THEN parts[1]
    ELSE parts[1] \o sep \o Join(sep, Tail(parts))

build_context_string_contents_only(chunks) ==
    IF chunks = << >> THEN NoContext
    ELSE Join("\n", [i \in 1..Len(chunks) |->
                        FStr(Get(chunks[i], "content", PyStr("")))])

build_context_string(chunks) ==
    IF chunks = << >> THEN NoContext
    ELSE Join("\n", [i \in 1..Len(chunks) |-> ContextPart(i, chunks[i])])

(***************************************************************************)
(* generate_final_answer                                                   *)
(***************************************************************************)
AnswerOutcomes == { Raise("APIError"), Ok([content |-> "answer"]) }

AnswerPromptWithoutQuery(original_query, context) ==
    [retrieved_context |-> context, original_query |-> ""]

\* the parts of answer_prompt that vary
AnswerPrompt(original_query, context) ==
    [retrieved_context |-> context, original_query |-> original_query]

\* what llm.stream(answer_prompt) can do: raise when called, or return an
\* iterator that yields its fragments and then ends or raises
StreamOutcomes ==
    { Raise("APIError"),
      Ok([fragments |-> <<"ans", "wer">>, raises |-> NotSet]),
      Ok([fragments |-> <<"ans">>, raises |-> Raise("APIError")]) }

generate_final_answer_bare_apology(original_query, subqs, context, as_stream, llm_outcome) ==
    IF IsExc(llm_outcome)
    THEN PyStr("I apologize, but I encountered an error while generating the final answer.")
    ELSE IF as_stream THEN llm_outcome.ok
         ELSE PyStr(llm_outcome.ok.content)

\* both branches sit in the one try block, so the except clause also
\* answers a llm.stream call that raises
generate_final_answer(original_query, subqs, context, as_stream, llm_outcome) ==
    IF IsExc(llm_outcome)
    THEN PyStr("I apologize, but I encountered an error while generating the final answer: "
               \o llm_outcome.exc)
    ELSE IF as_stream THEN llm_outcome.ok
         ELSE PyStr(llm_outcome.ok.content)

(***************************************************************************)
(* QueryResult: the dataclass takes exactly its four fields as keywords.   *)
(***************************************************************************)
QueryResultFields == {"original_query", "subqueries", "context", "final_answer"}

QueryResult(kwargs) ==
    IF DOMAIN kwargs = QueryResultFields THEN Ok(kwargs) ELSE Raise("TypeError")

(***************************************************************************)
(* retrieve_and_answer, stage by stage.                                    *)
(***************************************************************************)
Init ==
    /\ top_k_per_subquery = TopK
    /\ max_context_length = MaxContextLength
    /\ pc = "Start"
    /\ query \in Queries
    /\ stream \in BOOLEAN
    /\ documents \in DocumentOrders
    /\ db_up = TRUE
    /\ llm_calls = << >>
    /\ lookups = << >>
    /\ subqueries = NotSet
    /\ all_chunks = NotSetList
    /\ unique_chunks = NotSetList
    /\ unique_docs = NotSetList
    /\ final_chunks = NotSetList
    /\ context_string = NotSetText
    /\ final_answer = NotSet
    /\ error = NotSet
    /\ returned = NotSet
    /\ find_calls = << >>
    /\ NoEndpoint

GenerateSubqueries ==
    /\ pc = "Start"
    /\ pc' = "SubqueriesGenerated"
    /\ \E llm_outcome \in LLMOutcomes :
          /\ subqueries' = generate_subqueries(query, llm_outcome)
          /\ llm_calls' = Append(llm_calls,
                                 [purpose |-> "subqueries", outcome |-> llm_outcome])
    /\ UNCHANGED << top_k_per_subquery, max_context_length, query, stream,
                    documents, db_up, lookups, all_chunks, unique_chunks,
                    unique_docs, final_chunks, context_string, final_answer,
                    error, returned >>
    /\ UNCHANGED << find_calls, endpoint_vars >>

RetrieveForSubqueries ==
    /\ pc = "SubqueriesGenerated"
    /\ lookups' \in [1..Len(PyIter(subqueries)) -> LookupEnvs(top_k_per_subquery)]
    /\ LET r == retrieve_for_subqueries(subqueries, lookups', top_k_per_subquery)
       IN  /\ pc' = IF IsExc(r) THEN "Failed" ELSE "Retrieved"
           /\ all_chunks' = IF IsExc(r) THEN all_chunks ELSE r.ok
           /\ error' = IF IsExc(r) THEN r ELSE error
    /\ UNCHANGED << top_k_per_subquery, max_context_length, query, stream,
                    documents, db_up, llm_calls, subqueries, unique_chunks,
                    unique_docs, final_chunks, context_string, final_answer,
                    returned >>
    /\ UNCHANGED << find_calls, endpoint_vars >>

DeduplicateChunksRetry ==
    /\ pc = "Retrieved"
    /\ LET r == deduplicate_chunks(all_chunks)
       IN  /\ pc' = IF IsExc(r) THEN "Retrieved" ELSE "Deduplicated"
           /\ unique_chunks' = IF IsExc(r) THEN unique_chunks ELSE r.ok
           /\ error' = IF IsExc(r) THEN r ELSE error
    /\ UNCHANGED << top_k_per_subquery, max_context_length, query, stream,
                    documents, db_up, llm_calls, lookups, subqueries, all_chunks,
                    unique_docs, final_chunks, context_string, final_answer,
                    returned >>
    /\ UNCHANGED << find_calls, endpoint_vars >>

DeduplicateChunks ==
    /\ pc = "Retrieved"
    /\ LET r == deduplicate_chunks(all_chunks)
       IN  /\ pc' = IF IsExc(r) THEN "Failed" ELSE "Deduplicated"
           /\ unique_chunks' = IF IsExc(r) THEN unique_chunks ELSE r.ok
           /\ error' = IF IsExc(r) THEN r ELSE error
    /\ UNCHANGED << top_k_per_subquery, max_context_length, query, stream,
                    documents, db_up, llm_calls, lookups, subqueries, all_chunks,
                    unique_docs, final_chunks, context_string, final_answer,
                    returned >>
    /\ UNCHANGED << find_calls, endpoint_vars >>

GetFullDocs ==
    /\ pc = "Deduplicated"
    /\ db_up' \in BOOLEAN
    /\ LET r == get_full_docs(unique_chunks, documents, db_up')
       IN  /\ pc' = IF IsExc(r) THEN "Failed" ELSE "Expanded"
           /\ unique_docs' = IF IsExc(r) THEN unique_docs ELSE r.ok
           /\ error' = IF IsExc(r) THEN r ELSE error
    /\ find_calls' = Append(find_calls, doc_ids(unique_chunks))
    /\ UNCHANGED << top_k_per_subquery, max_context_length, query, stream,
                    documents, llm_calls, lookups, subqueries, all_chunks,
                    unique_chunks, final_chunks, context_string, final_answer,
                    returned >>
    /\ UNCHANGED endpoint_vars

TruncateContextSpendingBudget ==
    /\ pc = "Expanded"
    /\ LET r == truncate_context(unique_docs, max_context_length)
       IN  /\ pc' = IF IsExc(r) THEN "Failed" ELSE "Truncated"
           /\ final_chunks' = IF IsExc(r) THEN final_chunks ELSE r.ok
           /\ error' = IF IsExc(r) THEN r ELSE error
           /\ max_context_length' =
                 IF IsExc(r) \/ r.ok = << >> THEN max_context_length
                 ELSE max_context_length - 1
    /\ UNCHANGED << top_k_per_subquery, query, stream,
                    documents, db_up, llm_calls, lookups, subqueries, all_chunks,
                    unique_chunks, unique_docs, context_string, final_answer,
                    returned >>
    /\ UNCHANGED << find_calls, endpoint_vars >>

TruncateContext ==
    /\ pc = "Expanded"
    /\ LET r == truncate_context(unique_docs, max_context_length)
       IN  /\ pc' = IF IsExc(r) THEN "Failed" ELSE "Truncated"
           /\ final_chunks' = IF IsExc(r) THEN final_chunks ELSE r.ok
           /\ error' = IF IsExc(r) THEN r ELSE error
    /\ UNCHANGED << top_k_per_subquery, max_context_length, query, stream,
                    documents, db_up, llm_calls, lookups, subqueries, all_chunks,
                    unique_chunks, unique_docs, context_string, final_answer,
                    returned >>
    /\ UNCHANGED << find_calls, endpoint_vars >>

BuildContextString ==
    /\ pc = "Truncated"
    /\ pc' = "Formatted"
    /\ context_string' = build_context_string(final_chunks)
    /\ UNCHANGED << top_k_per_subquery, max_context_length, query, stream,
                    documents, db_up, llm_calls, lookups, subqueries, all_chunks,
                    unique_chunks, unique_docs, final_chunks, final_answer,
                    error, returned >>
    /\ UNCHANGED << find_calls, endpoint_vars >>

GenerateFinalAnswer ==
    /\ pc = "Formatted"
    /\ pc' = "Answered"
    /\ \E llm_outcome \in (IF stream THEN StreamOutcomes ELSE AnswerOutcomes) :
          /\ final_answer' = generate_final_answer(query, subqueries,
                                   context_string, stream, llm_outcome)
          /\ llm_calls' = Append(llm_calls,
                 [purpose |-> IF stream THEN "answer_stream" ELSE "answer",
                  prompt |-> AnswerPrompt(query, context_string),
                  outcome |-> llm_outcome])
    /\ UNCHANGED << top_k_per_subquery, max_context_length, query, stream,
                    documents, db_up, lookups, subqueries, all_chunks,
                    unique_chunks, unique_docs, final_chunks, context_string,
                    error, returned >>
    /\ UNCHANGED << find_calls, endpoint_vars >>

ReturnQueryResultAlways ==
    /\ pc = "Answered"
    /\ pc' = "Done"
    /\ returned' =
          QueryResult([original_query |-> query, subqueries |-> subqueries,
                       final_answer |-> final_answer,
                       context |-> context_string])
    /\ UNCHANGED << top_k_per_subquery, max_context_length, query, stream,
                    documents, db_up, llm_calls, lookups, subqueries, all_chunks,
                    unique_chunks, unique_docs, final_chunks, context_string,
                    final_answer, error >>
    /\ UNCHANGED << find_calls, endpoint_vars >>

\* the tail of the try block: the stream handle, or the QueryResult
Return ==
    /\ pc = "Answered"
    /\ pc' = "Done"
    /\ returned' =
          IF stream THEN Ok(final_answer)
          ELSE QueryResult([original_query |-> query, subqueries |-> subqueries,
                            final_answer |-> final_answer,
                            context |-> context_string])
    /\ UNCHANGED << top_k_per_subquery, max_context_length, query, stream,
                    documents, db_up, llm_calls, lookups, subqueries, all_chunks,
                    unique_chunks, unique_docs, final_chunks, context_string,
                    final_answer, error >>
    /\ UNCHANGED << find_calls, endpoint_vars >>

\* the except clause: the error result is built with keywords the dataclass
\* does not have, and without context
ExceptClause ==
    /\ pc = "Failed"
    /\ returned = NotSet
    /\ returned' =
          QueryResult([original_query |-> query, subqueries |-> PyList(<< >>),
                       chunks |-> PyList(<< >>), unique_chunks |-> PyList(<< >>),
                       final_answer |-> PyStr("I apologize, but I encountered an error while processing your query: "
                                              \o error.exc),
                       metadata |-> [error |-> error.exc]])
    /\ UNCHANGED << top_k_per_subquery, max_context_length, pc, query, stream,
                    documents, db_up, llm_calls, lookups, subqueries, all_chunks,
                    unique_chunks, unique_docs, final_chunks, context_string,
                    final_answer, error >>
    /\ UNCHANGED << find_calls, endpoint_vars >>

Next ==
    \/ GenerateSubqueries
    \/ RetrieveForSubqueries
    \/ DeduplicateChunks
    \/ GetFullDocs
    \/ TruncateContext
    \/ BuildContextString
    \/ GenerateFinalAnswer
    \/ Return
    \/ ExceptClause

Spec == Init /\ [][Next]_vars

\* retrieve_and_answer is one sequential call: a stage that can run does
\* run.  The stages do not look into the query text, so one query is drawn.
InitLive == Init /\ query = "q1"

SpecLive == InitLive /\ [][Next]_vars /\ WF_pc(Next)

\* the fan-out on its own, for every top_k_per_subquery the constructor can
\* be given up to MaxTopK
MaxTopK == 2

InitFanout ==
    /\ top_k_per_subquery \in 1..MaxTopK
    /\ max_context_length = MaxContextLength
    /\ pc = "Start"
    /\ query \in Queries
    /\ stream = FALSE
    /\ documents = << >>
    /\ db_up = TRUE
    /\ llm_calls = << >>
    /\ lookups = << >>
    /\ subqueries = NotSet
    /\ all_chunks = NotSetList
    /\ unique_chunks = NotSetList
    /\ unique_docs = NotSetList
    /\ final_chunks = NotSetList
    /\ context_string = NotSetText
    /\ final_answer = NotSet
    /\ error = NotSet
    /\ returned = NotSet
    /\ find_calls = << >>
    /\ NoEndpoint

NextFanout == GenerateSubqueries \/ RetrieveForSubqueries

SpecFanout == InitFanout /\ [][NextFanout]_vars

(***************************************************************************)
(* Claims about generate_subqueries and retrieve_for_subqueries, checked   *)
(* under SpecFanout.                                                       *)
(***************************************************************************)
SubqueryOutcome == llm_calls[1].outcome

GenerationFailed ==
    \/ IsExc(SubqueryOutcome)
    \/ IsExc(json_loads(SubqueryOutcome.ok.content))

ParsedAsList ==
    /\ ~GenerationFailed
    /\ IsList(json_loads(SubqueryOutcome.ok.content).ok)

ParsedList == json_loads(SubqueryOutcome.ok.content).ok.list

\* C7: whatever the language model answers, generate_subqueries returns a
\* list of strings with at least one entry.
C7_ListOfStrings ==
    pc # "Start" =>
        /\ IsList(subqueries)
        /\ Len(subqueries.list) >= 1
        /\ \A i \in 1..Len(subqueries.list) : IsStr(subqueries.list[i])

C9_PaddedToThree ==
    (pc # "Start" /\ ParsedAsList) =>
        LET n == Len(ParsedList)
        IN  /\ IsList(subqueries)
            /\ Len(subqueries.list) = IF n < 3 THEN 3 ELSE n
            /\ \A i \in 1..n : subqueries.list[i] = ParsedList[i]
            /\ \A k \in (n + 1)..3 :
                  subqueries.list[k] =
                      PyStr(query \o " - variation " \o ToString(k))

C9_Witness ==
    /\ pc = "SubqueriesGenerated"
    /\ ParsedAsList
    /\ Len(ParsedList) = 1
    /\ subqueries = PyList(<<PyStr("a"), PyStr("q1 - variation 2"),
                             PyStr("q1 - variation 3")>>)

\* the chunks of a fan-out result without the fields the fan-out adds
Untagged(chunk) ==
    [k \in DOMAIN chunk \ {"source_subquery", "subquery_index"} |-> chunk[k]]

LookupFailed(i) == IsExc(retrieve_relevant_chunks(lookups[i], top_k_per_subquery))

LookupResult(i) ==
    IF LookupFailed(i) THEN << >>
    ELSE retrieve_relevant_chunks(lookups[i], top_k_per_subquery).ok

\* the number of output chunks that come from the lookups before lookup i
Offset(i) ==
    Cardinality({ p \in (1..(i - 1)) \X (1..top_k_per_subquery) :
                    p[2] <= Len(LookupResult(p[1])) })

\* C10: a failed lookup contributes nothing and stops nothing: the output is
\* the concatenation, in subquery order, of the results of the lookups that
\* succeeded, and the call does not raise.
C10_FailedLookupSkipped ==
    pc = "Retrieved" =>
        /\ error = NotSet
        /\ Len(all_chunks) = Offset(Len(lookups) + 1)
        /\ \A i \in 1..Len(lookups) : \A k \in 1..Len(LookupResult(i)) :
              Untagged(all_chunks[Offset(i) + k]) = LookupResult(i)[k]

C10_Witness ==
    /\ pc = "Retrieved"
    /\ Len(lookups) = 3
    /\ ~LookupFailed(1) /\ LookupFailed(2) /\ ~LookupFailed(3)
    /\ Len(LookupResult(1)) = 1 /\ Len(LookupResult(3)) = 1
    /\ Len(all_chunks) = 2
    /\ all_chunks[1].subquery_index = 1
    /\ all_chunks[2].subquery_index = 3

\* the output positions whose chunk was tagged with subquery i
PositionsOf(i) ==
    { p \in 1..Len(all_chunks) : all_chunks[p].subquery_index = i }

\* C11: every chunk of the fan-out result carries the subquery it was
\* retrieved for, as iterated, and that subquery's 1-based position, a
\* failed lookup keeping its position; the result is ordered by subquery
\* position and, within one subquery, by the rank the store gave.
C11_TagsAndOrder ==
    pc = "Retrieved" =>
        /\ \A p \in 1..Len(all_chunks) :
              LET i == all_chunks[p].subquery_index
              IN  /\ i \in 1..Len(PyIter(subqueries))
                  /\ ~LookupFailed(i)
                  /\ all_chunks[p].source_subquery = PyIter(subqueries)[i]
                  /\ \E k \in 1..Len(LookupResult(i)) :
                        /\ k = Cardinality({ q \in PositionsOf(i) : q <= p })
                        /\ Untagged(all_chunks[p]) = LookupResult(i)[k]
        /\ \A p, q \in 1..Len(all_chunks) :
              p < q => all_chunks[p].subquery_index <= all_chunks[q].subquery_index
        /\ \A i \in 1..Len(lookups) :
              Cardinality(PositionsOf(i)) = Len(LookupResult(i))

C11_Witness ==
    /\ pc = "Retrieved"
    /\ Len(lookups) = 3
    /\ LookupFailed(1)
    /\ Len(LookupResult(2)) = 2 /\ Len(LookupResult(3)) = 1
    /\ subqueries = PyList(<<PyStr("a"), PyStr("b"), PyStr("c")>>)
    /\ Len(all_chunks) = 3
    /\ all_chunks[1].subquery_index = 2 /\ all_chunks[1].source_subquery = PyStr("b")
    /\ all_chunks[2].subquery_index = 2 /\ all_chunks[2].source_subquery = PyStr("b")
    /\ all_chunks[1].score > all_chunks[2].score
    /\ all_chunks[3].subquery_index = 3 /\ all_chunks[3].source_subquery = PyStr("c")

(***************************************************************************)
(* deduplicate_chunks called on its own, on every chunk list of at most    *)
(* MaxChunks chunks.                                                       *)
(***************************************************************************)
MaxChunks == 4

ChunkIds == {"", "a", "b"}
Contents == <<"x", "y", "z">>
Scores == {1, 2}

ChunkUniverse ==
    { [chunk_id |-> id, content |-> PyStr(Contents[c]), score |-> sc] :
        id \in ChunkIds, c \in 1..Len(Contents), sc \in Scores }

ContentRank(chunk) ==
    CHOOSE c \in 1..Len(Contents) : chunk.content = PyStr(Contents[c])

\* deduplicate_chunks only compares contents for equality, so the lists are
\* taken up to a renaming of the contents: the first content of a list is
\* "x", the next new one "y", then "z"
FirstSeenOrder(chunks) ==
    \A i \in 1..Len(chunks) : \A c \in 1..(ContentRank(chunks[i]) - 1) :
        \E j \in 1..(i - 1) : ContentRank(chunks[j]) = c

ChunkLists(n) == { chunks \in [1..n -> ChunkUniverse] : FirstSeenOrder(chunks) }

InitDedup ==
    /\ top_k_per_subquery = TopK
    /\ max_context_length = MaxContextLength
    /\ pc = "Retrieved"
    /\ query = "q1"
    /\ stream = FALSE
    /\ documents = << >>
    /\ db_up = TRUE
    /\ llm_calls = << >>
    /\ lookups = << >>
    /\ subqueries = NotSet
    /\ \E n \in 0..MaxChunks : all_chunks \in ChunkLists(n)
    /\ unique_chunks = NotSetList
    /\ unique_docs = NotSetList
    /\ final_chunks = NotSetList
    /\ context_string = NotSetText
    /\ final_answer = NotSet
    /\ error = NotSet
    /\ returned = NotSet
    /\ find_calls = << >>
    /\ NoEndpoint

NextDedup == DeduplicateChunks

SpecDedup == InitDedup /\ [][NextDedup]_vars

(***************************************************************************)
(* Claims about deduplicate_chunks, checked under SpecDedup.               *)
(***************************************************************************)
IdOf(chunk) == Get(chunk, "chunk_id", "")
ContentOf(chunk) == Get(chunk, "content", PyStr(""))

\* C2 as claimed: no chunk_id value, the empty one included, occurs twice in
\* the output.
C2_EachChunkIdOnce ==
    pc = "Deduplicated" =>
        \A i, j \in 1..Len(unique_chunks) :
            i < j => IdOf(unique_chunks[i]) # IdOf(unique_chunks[j])

\* C2: no non-empty chunk_id value occurs twice in the output of
\* deduplicate_chunks.
C2_EachNonEmptyChunkIdOnce ==
    pc = "Deduplicated" =>
        \A i, j \in 1..Len(unique_chunks) :
            (i < j /\ IdOf(unique_chunks[i]) # "") =>
                IdOf(unique_chunks[i]) # IdOf(unique_chunks[j])

C2_Witness ==
    /\ pc = "Deduplicated"
    /\ \E i, j \in 1..Len(all_chunks) :
          /\ i < j
          /\ IdOf(all_chunks[i]) = "a" /\ IdOf(all_chunks[j]) = "a"
          /\ ContentOf(all_chunks[i]) # ContentOf(all_chunks[j])
    /\ Cardinality({ i \in 1..Len(unique_chunks) :
                       IdOf(unique_chunks[i]) = "a" }) = 1

\* the input positions holding the content c
Group(c) == { i \in 1..Len(all_chunks) : ContentOf(all_chunks[i]) = c }

Survivors(c) ==
    { i \in 1..Len(unique_chunks) : ContentOf(unique_chunks[i]) = c }

DistinctIds(g) ==
    \A i, j \in g : i # j => IdOf(all_chunks[i]) # IdOf(all_chunks[j])

\* no chunk with another content repeats a chunk_id of the group
IdsNotUsedElsewhere(g) ==
    \A i \in g : \A j \in (1..Len(all_chunks)) \ g :
        IdOf(all_chunks[i]) = "" \/ IdOf(all_chunks[i]) # IdOf(all_chunks[j])

\* C3 as claimed: of the input chunks that share a content and have pairwise
\* distinct ids, exactly one is in the output.
C3_ExactlyOneOfGroup ==
    pc = "Deduplicated" =>
        \A c \in {ContentOf(all_chunks[i]) : i \in 1..Len(all_chunks)} :
            (Cardinality(Group(c)) >= 2 /\ DistinctIds(Group(c))) =>
                Cardinality(Survivors(c)) = 1

\* C3: no two output chunks have the same content; of the input chunks that
\* share a content, at most one is in the output, and exactly one when no
\* chunk with another content repeats one of their chunk_ids.
C3_UniqueContent ==
    pc = "Deduplicated" =>
        /\ \A i, j \in 1..Len(unique_chunks) :
              i < j => ContentOf(unique_chunks[i]) # ContentOf(unique_chunks[j])
        /\ \A c \in {ContentOf(all_chunks[i]) : i \in 1..Len(all_chunks)} :
              /\ Cardinality(Survivors(c)) <= 1
              /\ IdsNotUsedElsewhere(Group(c)) => Cardinality(Survivors(c)) = 1

C3_Witness ==
    /\ pc = "Deduplicated"
    /\ \E c \in Range([i \in 1..Len(all_chunks) |-> ContentOf(all_chunks[i])]) :
          /\ Cardinality(Group(c)) >= 2
          /\ DistinctIds(Group(c))
          /\ IdsNotUsedElsewhere(Group(c))
          /\ Cardinality(Survivors(c)) = 1

\* the first input position of a chunk
FirstIndex(chunk) ==
    CHOOSE i \in 1..Len(all_chunks) :
        /\ all_chunks[i] = chunk
        /\ \A j \in 1..(i - 1) : all_chunks[j] # chunk

\* C4: the output is ordered by score, highest first, and chunks of equal
\* score keep their input order.
C4_SortedStable ==
    pc = "Deduplicated" =>
        \A i, j \in 1..Len(unique_chunks) :
            i < j =>
                /\ ScoreKey(unique_chunks[i]) >= ScoreKey(unique_chunks[j])
                /\ ScoreKey(unique_chunks[i]) = ScoreKey(unique_chunks[j]) =>
                      FirstIndex(unique_chunks[i]) < FirstIndex(unique_chunks[j])

C4_Witness ==
    /\ pc = "Deduplicated"
    /\ Len(unique_chunks) = 3
    /\ ScoreKey(unique_chunks[1]) = 2
    /\ ScoreKey(unique_chunks[2]) = 2
    /\ ScoreKey(unique_chunks[3]) = 1
    /\ unique_chunks[3] = all_chunks[1]
    /\ FirstIndex(unique_chunks[1]) < FirstIndex(unique_chunks[2])

\* the input positions whose chunk_id is that of an earlier chunk, and the
\* other positions whose content is that of an earlier chunk
IdRepeats ==
    { i \in 1..Len(all_chunks) :
        \E j \in 1..(i - 1) : IdOf(all_chunks[j]) = IdOf(all_chunks[i]) }

ContentRepeats ==
    { i \in (1..Len(all_chunks)) \ IdRepeats :
        \E j \in 1..(i - 1) : ContentOf(all_chunks[j]) = ContentOf(all_chunks[i]) }

RankedByScore ==
    \A p, q \in 1..Len(unique_chunks) :
        p < q => ScoreKey(unique_chunks[p]) >= ScoreKey(unique_chunks[q])

\* C20 as stated: of n chunks, k of which repeat the chunk_id of an earlier
\* chunk and m others the content of an earlier chunk, exactly n - k - m
\* are returned, ranked by score.
C20_CountByRepeats ==
    pc = "Deduplicated" =>
        /\ Len(unique_chunks) = Len(all_chunks) - Cardinality(IdRepeats)
                                  - Cardinality(ContentRepeats)
        /\ RankedByScore

\* the chunk at input position j is in the output
Kept(j) ==
    /\ all_chunks[j] \in Range(unique_chunks)
    /\ \A i \in 1..(j - 1) : all_chunks[i] # all_chunks[j]

KeptIdRepeats ==
    { i \in 1..Len(all_chunks) :
        /\ IdOf(all_chunks[i]) # ""
        /\ \E j \in 1..(i - 1) :
              Kept(j) /\ IdOf(all_chunks[j]) = IdOf(all_chunks[i]) }

KeptContentRepeats ==
    { i \in (1..Len(all_chunks)) \ KeptIdRepeats :
        \E j \in 1..(i - 1) :
            Kept(j) /\ ContentOf(all_chunks[j]) = ContentOf(all_chunks[i]) }

\* C20, amended: of n chunks, k of which have a non-empty chunk_id equal to
\* that of an earlier chunk that is kept and m others the content of an
\* earlier chunk that is kept, exactly n - k - m are returned, ranked by
\* score.
C20_CountByKeptRepeats ==
    pc = "Deduplicated" =>
        /\ Len(unique_chunks) = Len(all_chunks) - Cardinality(KeptIdRepeats)
                                  - Cardinality(KeptContentRepeats)
        /\ RankedByScore

C20_Witness ==
    /\ pc = "Deduplicated"
    /\ Len(all_chunks) = 4
    /\ Cardinality(KeptIdRepeats) = 1
    /\ Cardinality(KeptContentRepeats) = 1
    /\ \A i \in KeptContentRepeats :
          /\ IdOf(all_chunks[i]) # ""
          /\ \A j \in 1..(i - 1) : IdOf(all_chunks[j]) # IdOf(all_chunks[i])
    /\ Len(unique_chunks) = 2
    /\ ScoreKey(unique_chunks[1]) > ScoreKey(unique_chunks[2])

\* the orders in which the n chunks of the input can arrive
Orderings(n) ==
    { f \in [1..n -> 1..n] : \A i, j \in 1..n : i # j => f[i] # f[j] }

Reordered(chunks, f) == [i \in 1..Len(chunks) |-> chunks[f[i]]]

\* C18: the chunks that survive deduplication do not depend on the order in
\* which the retrieved chunks arrive: every reordering of the input gives
\* the same set of surviving chunks.
C18_OrderIndependent ==
    pc = "Deduplicated" =>
        \A f \in Orderings(Len(all_chunks)) :
            LET other == deduplicate_chunks(Reordered(all_chunks, f))
            IN  /\ ~IsExc(other)
                /\ Range(other.ok) = Range(unique_chunks)

(***************************************************************************)
(* truncate_context called on its own, on every sequence of at most        *)
(* MaxDocs documents and every budget up to MaxBudget.                     *)
\* chunk j repeats chunk i: the same non-empty chunk_id or the same content
Repeats(i, j) ==
    \/ IdOf(all_chunks[i]) # "" /\ IdOf(all_chunks[i]) = IdOf(all_chunks[j])
    \/ ContentOf(all_chunks[i]) = ContentOf(all_chunks[j])

\* S is the set of surviving positions: a position is in S exactly when no
\* earlier position of S holds a chunk it repeats
IsSurvivorSet(S) ==
    \A j \in 1..Len(all_chunks) :
        j \in S <=> ~\E i \in S : i < j /\ Repeats(i, j)

\* C27: deduplicate_chunks only removes chunks and keeps first occurrences:
\* the output holds, unaltered, exactly the input chunks at the surviving
\* positions, where a chunk is dropped if and only if an earlier surviving
\* chunk has the same non-empty chunk_id or the same content.
C27_KeepsFirstOccurrences ==
    pc = "Deduplicated" =>
        \E S \in SUBSET (1..Len(all_chunks)) :
            /\ IsSurvivorSet(S)
            /\ Len(unique_chunks) = Cardinality(S)
            /\ \A j \in S : all_chunks[j] \in Range(unique_chunks)
            /\ \A p \in 1..Len(unique_chunks) :
                  \E j \in S : unique_chunks[p] = all_chunks[j]

\* the first chunk survives with its own score although a later chunk with
\* the same chunk_id scores higher
C27_Witness ==
    /\ pc = "Deduplicated"
    /\ Len(all_chunks) = 3
    /\ IdOf(all_chunks[1]) = "a" /\ IdOf(all_chunks[2]) = "a"
    /\ ContentOf(all_chunks[1]) # ContentOf(all_chunks[2])
    /\ ScoreKey(all_chunks[1]) = 1 /\ ScoreKey(all_chunks[2]) = 2
    /\ ContentOf(all_chunks[3]) = ContentOf(all_chunks[2])
    /\ IdOf(all_chunks[3]) = "b"
    /\ ScoreKey(all_chunks[3]) = 2
    /\ unique_chunks = <<all_chunks[3], all_chunks[1]>>

\* C28: deduplicate_chunks is idempotent: applied to its own output it
\* returns the same chunks in the same order.
C28_Idempotent ==
    pc = "Deduplicated" => deduplicate_chunks(unique_chunks) = Ok(unique_chunks)

C28_Witness ==
    /\ pc = "Deduplicated"
    /\ Len(all_chunks) = 4
    /\ Len(unique_chunks) = 3
    /\ ScoreKey(unique_chunks[1]) = ScoreKey(unique_chunks[2])
    /\ ScoreKey(unique_chunks[2]) > ScoreKey(unique_chunks[3])
    /\ unique_chunks[3] = all_chunks[1]
    /\ deduplicate_chunks(unique_chunks) = Ok(unique_chunks)

(***************************************************************************)
MaxDocs == 3
MaxBudget == 6

DocContents == {"", "ab", "abc", "abcdef"}
DocIds == {"d1", "d2"}

DocUniverse ==
    { [document_id |-> id, title |-> "t", url |-> "u", content |-> PyStr(c)] :
        id \in DocIds, c \in DocContents }

DocLists == UNION { [1..n -> DocUniverse] : n \in 0..MaxDocs }

InitTruncate ==
    /\ top_k_per_subquery = TopK
    /\ max_context_length \in 0..MaxBudget
    /\ pc = "Expanded"
    /\ query = "q1"
    /\ stream = FALSE
    /\ documents = << >>
    /\ db_up = TRUE
    /\ llm_calls = << >>
    /\ lookups = << >>
    /\ subqueries = NotSet
    /\ all_chunks = NotSetList
    /\ unique_chunks = NotSetList
    /\ unique_docs \in DocLists
    /\ final_chunks = NotSetList
    /\ context_string = NotSetText
    /\ final_answer = NotSet
    /\ error = NotSet
    /\ returned = NotSet
    /\ find_calls = << >>
    /\ NoEndpoint

NextTruncate == TruncateContext

SpecTruncate == InitTruncate /\ [][NextTruncate]_vars

(***************************************************************************)
(* Claims about truncate_context, checked under SpecTruncate.              *)
(***************************************************************************)
ContentLength(doc) == Len(Get(doc, "content", PyStr("")).str)

RECURSIVE TotalLength(_)
TotalLength(docs) ==
    IF docs = << >> THEN 0 ELSE ContentLength(Head(docs)) + TotalLength(Tail(docs))

\* C5: the result is a prefix of the input whose total content length is at
\* most max_context_length, and the input document that follows the prefix,
\* if there is one, would take the total over max_context_length.
C5_MaximalPrefix ==
    pc = "Truncated" =>
        /\ Len(final_chunks) <= Len(unique_docs)
        /\ final_chunks = SubSeq(unique_docs, 1, Len(final_chunks))
        /\ TotalLength(final_chunks) <= max_context_length
        /\ Len(final_chunks) < Len(unique_docs) =>
              TotalLength(final_chunks)
                + ContentLength(unique_docs[Len(final_chunks) + 1])
                  > max_context_length

\* budget 5 and three documents of length 2 give the first two; budget 5 and
\* lengths 3, 3, 2 would give the first only
C5_Witness ==
    /\ pc = "Truncated"
    /\ max_context_length = 5
    /\ Len(unique_docs) = 3
    /\ \A i \in 1..3 : ContentLength(unique_docs[i]) = 2
    /\ final_chunks = SubSeq(unique_docs, 1, 2)

(***************************************************************************)
(* build_context_string called on its own, on every sequence of at most    *)
(* MaxFormatChunks chunks, with and without metadata and score, and with   *)
(* the sentinel text itself as content.                                    *)
(***************************************************************************)
MaxFormatChunks == 2

FormatUniverse ==
    { [content |-> PyStr(c)] : c \in {"", "No relevant context found."} } \cup
    { [content |-> PyStr(c), score |-> 1] :
        c \in {"", "No relevant context found."} } \cup
    { [content |-> PyStr(c), metadata |-> [url |-> "u1", title |-> "t1"]] :
        c \in {"", "No relevant context found."} } \cup
    { [content |-> PyStr(c), metadata |-> [url |-> "u1", title |-> "t1"],
       score |-> 1] : c \in {"", "No relevant context found."} }

InitFormat ==
    /\ top_k_per_subquery = TopK
    /\ max_context_length = MaxContextLength
    /\ pc = "Truncated"
    /\ query = "q1"
    /\ stream = FALSE
    /\ documents = << >>
    /\ db_up = TRUE
    /\ llm_calls = << >>
    /\ lookups = << >>
    /\ subqueries = NotSet
    /\ all_chunks = NotSetList
    /\ unique_chunks = NotSetList
    /\ unique_docs = NotSetList
    /\ \E n \in 0..MaxFormatChunks : final_chunks \in [1..n -> FormatUniverse]
    /\ context_string = NotSetText
    /\ final_answer = NotSet
    /\ error = NotSet
    /\ returned = NotSet
    /\ find_calls = << >>
    /\ NoEndpoint

NextFormat == BuildContextString

SpecFormat == InitFormat /\ [][NextFormat]_vars

\* C17: build_context_string returns the literal "No relevant context
\* found." for the empty sequence, and for every non-empty sequence a
\* string that differs from it.
C17_SentinelOnlyForEmpty ==
    pc = "Formatted" =>
        /\ final_chunks = << >> => context_string = "No relevant context found."
        /\ final_chunks # << >> => context_string # "No relevant context found."

C17_Witness ==
    /\ pc = "Formatted"
    /\ Len(final_chunks) = 1
    /\ final_chunks[1] = [content |-> PyStr("No relevant context found.")]
    /\ context_string =
          "\n<context_chunk id=\"1\" score=\"0.000\" source_url=\"Unknown Source\" title=\"Unknown Title\">\nNo relevant context found.\n</context_chunk>"

(***************************************************************************)
(* Claims about retrieve_and_answer, checked under Spec.                   *)
(***************************************************************************)
Apology(text) ==
    PyStr("I apologize, but I encountered an error while processing your query: "
          \o text)

\* C1: a blocking call never hands an exception to its caller; when a stage
\* raised, the caller gets a QueryResult with no subqueries and an apology
\* that carries the error text.
C1_NoExceptionReachesCaller ==
    (~stream /\ returned # NotSet) =>
        /\ ~IsExc(returned)
        /\ DOMAIN returned.ok = QueryResultFields
        /\ pc = "Failed" =>
              /\ returned.ok.subqueries = PyList(<< >>)
              /\ returned.ok.final_answer = Apology(error.exc)

\* the position in unique_chunks of the first chunk of a document
FirstChunkOf(doc) ==
    CHOOSE i \in 1..Len(unique_chunks) :
        /\ Get(unique_chunks[i], "document_id", "") = doc.document_id
        /\ \A j \in 1..(i - 1) :
              Get(unique_chunks[j], "document_id", "") # doc.document_id

\* the call of the language model made for the final answer
AnswerCalls ==
    { i \in 1..Len(llm_calls) :
        llm_calls[i].purpose \in {"answer", "answer_stream"} }

\* C12: when the batch lookup of the documents fails, get_full_docs returns
\* the empty list without raising and the run goes on: nothing is selected,
\* the context is "No relevant context found.", and the language model is
\* still asked for the final answer with that context.
C12_FailedDocumentLookup ==
    (~db_up /\ pc \notin {"Start", "SubqueriesGenerated", "Retrieved",
                          "Deduplicated"}) =>
        /\ pc # "Failed"
        /\ error = NotSet
        /\ unique_docs = << >>
        /\ pc # "Expanded" => final_chunks = << >>
        /\ pc \notin {"Expanded", "Truncated"} =>
              context_string = "No relevant context found."
        /\ pc = "Formatted" => ENABLED GenerateFinalAnswer
        /\ pc \in {"Answered", "Done"} =>
              /\ Cardinality(AnswerCalls) = 1
              /\ \A i \in AnswerCalls :
                    llm_calls[i].prompt.retrieved_context =
                        "No relevant context found."

C12_Witness ==
    /\ ~db_up
    /\ pc = "Done"
    /\ Len(unique_chunks) >= 1
    /\ unique_docs = << >>
    /\ context_string = "No relevant context found."
    /\ Cardinality(AnswerCalls) = 1

\* the outcome of the language-model call made for the final answer
AnswerOutcome == llm_calls[Len(llm_calls)].outcome

\* C13: in blocking mode generate_final_answer makes exactly one call of
\* the language model and never raises: it returns the completion text, or
\* on failure the apology that ends with the error text, and the
\* orchestrator returns an ordinary QueryResult with the generated
\* subqueries, the built context and that string as final_answer.
C13_BlockingAnswerNeverRaises ==
    /\ (~stream /\ pc = "Failed") => AnswerCalls = {}
    /\ (~stream /\ pc \in {"Answered", "Done"}) =>
          /\ Cardinality(AnswerCalls) = 1
          /\ llm_calls[Len(llm_calls)].purpose = "answer"
          /\ final_answer =
                IF IsExc(AnswerOutcome)
                THEN PyStr("I apologize, but I encountered an error while generating the final answer: "
                           \o AnswerOutcome.exc)
                ELSE PyStr(AnswerOutcome.ok.content)
          /\ pc = "Done" =>
                returned = Ok([original_query |-> query,
                               subqueries |-> subqueries,
                               context |-> context_string,
                               final_answer |-> final_answer])

C13_Witness ==
    /\ ~stream
    /\ pc = "Done"
    /\ IsExc(AnswerOutcome)
    /\ ~IsExc(returned)
    /\ returned.ok.final_answer =
          PyStr("I apologize, but I encountered an error while generating the final answer: APIError")
    /\ returned.ok.subqueries = PyList(<<PyStr("a"), PyStr("b"), PyStr("c")>>)
    /\ returned.ok.context # "No relevant context found."

\* C14: in streaming mode a failure of the answer generation is never turned
\* into the apology text: generate_final_answer(stream=True) returns the
\* stream, never a plain string, and a failure of llm.stream reaches the
\* caller as an error.
C14_StreamFailurePropagates ==
    (stream /\ pc \in {"Answered", "Done"}) =>
        /\ ~IsExc(AnswerOutcome)
        /\ ~IsStr(final_answer)

Stages ==
    << "Start", "SubqueriesGenerated", "Retrieved", "Deduplicated", "Expanded",
       "Truncated", "Formatted", "Answered" >>

Terminal == {"Done", "Failed"}

\* pc moves from one stage to the stage after it
NextStage ==
    \E i \in 1..(Len(Stages) - 1) : pc = Stages[i] /\ pc' = Stages[i + 1]

\* C15 as stated: every run passes through all the stages Start ..
\* Answered in order, only then enters a terminal state (Done or Failed),
\* never leaves it, and always reaches one.
C15_AllStagesThenTerminal ==
    /\ [][NextStage \/ (pc = "Answered" /\ pc' \in Terminal)]_pc
    /\ <>(pc \in Terminal)

\* C15, amended: the stages are entered in the fixed order, none twice; a
\* run that reaches Answered ends in Done, a run whose stage raises goes
\* from that stage straight to Failed without running the later stages; a
\* terminal state is never left and is always reached.
C15_StagesInOrder ==
    /\ [][\/ NextStage
          \/ pc = "Answered" /\ pc' = "Done"
          \/ pc \notin Terminal /\ pc # "Answered" /\ pc' = "Failed"
                /\ error' # NotSet /\ final_answer' = NotSet]_pc
    /\ <>(pc \in Terminal)

C15_Witness ==
    /\ pc = "Failed"
    /\ error = Raise("AttributeError")
    /\ lookups # << >>
    /\ final_answer = NotSet
    /\ returned # NotSet

\* C16: in streaming mode retrieve_and_answer returns the value that
\* generate_final_answer returned, as it is, and builds no QueryResult; the
\* stages before the answer produce what they produce in blocking mode.
C16_StreamReturnsHandle ==
    (stream /\ pc = "Done") =>
        /\ returned = Ok(final_answer)
        /\ DOMAIN returned.ok # QueryResultFields
        /\ final_answer = generate_final_answer(query, subqueries, context_string,
                                                TRUE, AnswerOutcome)
        /\ all_chunks =
              retrieve_for_subqueries(subqueries, lookups, top_k_per_subquery).ok
        /\ unique_chunks = deduplicate_chunks(all_chunks).ok
        /\ unique_docs = get_full_docs(unique_chunks, documents, db_up).ok
        /\ final_chunks = truncate_context(unique_docs, max_context_length).ok
        /\ context_string = build_context_string(final_chunks)

C16_Witness ==
    /\ stream
    /\ pc = "Done"
    /\ Len(final_chunks) >= 1
    /\ returned = Ok([fragments |-> <<"ans", "wer">>, raises |-> NotSet])

\* every subquery was looked up and the store had no chunk for any of them
NothingRetrieved ==
    /\ pc \notin {"Start", "SubqueriesGenerated"}
    /\ Len(lookups) >= 1
    /\ \A i \in 1..Len(lookups) : ~LookupFailed(i) /\ LookupResult(i) = << >>

\* C19: when the vector store returns no chunk for any subquery the run
\* does not fail: the context is "No relevant context found.", the language
\* model is still called for the final answer, and the prompt of that call
\* holds the original query.
C19_NothingRetrieved ==
    NothingRetrieved =>
        /\ pc # "Failed"
        /\ error = NotSet
        /\ pc \in {"Formatted", "Answered", "Done"} =>
              context_string = "No relevant context found."
        /\ pc = "Formatted" => ENABLED GenerateFinalAnswer
        /\ pc \in {"Answered", "Done"} =>
              /\ Cardinality(AnswerCalls) = 1
              /\ \A i \in AnswerCalls :
                    /\ llm_calls[i].prompt.retrieved_context =
                          "No relevant context found."
                    /\ llm_calls[i].prompt.original_query = query

C19_Witness ==
    /\ NothingRetrieved
    /\ pc = "Done"
    /\ Len(lookups) = 3
    /\ db_up
    /\ query = "q2"
    /\ llm_calls[Len(llm_calls)].prompt =
          [retrieved_context |-> "No relevant context found.",
           original_query |-> "q2"]

\* C6: the documents handed to truncate_context and build_context_string are
\* in the score order of the deduplicated chunks that reference them.
C6_ExpansionKeepsScoreOrder ==
    pc \in {"Expanded", "Truncated", "Formatted"} =>
        \A i, j \in 1..Len(unique_docs) :
            i < j => FirstChunkOf(unique_docs[i]) < FirstChunkOf(unique_docs[j])

\* C22: top_k_per_subquery and max_context_length are set at construction
\* and no pipeline operation changes them, whether it succeeds or raises.
C22_ConfigurationFixed ==
    [][/\ top_k_per_subquery' = top_k_per_subquery
       /\ max_context_length' = max_context_length]_vars

C22_Witness ==
    /\ pc = "Done"
    /\ Len(final_chunks) >= 1
    /\ Len(final_chunks) < Len(unique_docs)
    /\ top_k_per_subquery = TopK
    /\ max_context_length = MaxContextLength

(***************************************************************************)
(* Two requests to query_endpoint at once.  Each request builds its own    *)
(* AdvancedRAGRetriever and calls retrieve_and_answer; the locals of the   *)
(* call are the fields of its frame.  The stages of the two calls          *)
(* interleave freely.                                                      *)
(***************************************************************************)
Invocations == {"A", "B"}

NewFrame(q) ==
    [pc |-> "Start", query |-> q, responses |-> << >>,
     subqueries |-> NotSet, all_chunks |-> NotSetList,
     unique_chunks |-> NotSetList, unique_docs |-> NotSetList,
     final_chunks |-> NotSetList, context_string |-> NotSetText,
     final_answer |-> NotSet, error |-> NotSet, returned |-> NotSet]

\* a stage that raised: control goes to the except clause
Raised(f, r) == [f EXCEPT !.pc = "Failed", !.error = r]

\* one stage of retrieve_and_answer(query) on frame f, given what the
\* external service of that stage answers
StageStep(f, response) ==
    LET g == [f EXCEPT !.responses = Append(@, response)]
    IN  CASE f.pc = "Start" ->
               [g EXCEPT !.pc = "SubqueriesGenerated",
                         !.subqueries = generate_subqueries(f.query, response)]
          [] f.pc = "SubqueriesGenerated" ->
               LET r == retrieve_for_subqueries(f.subqueries, response.envs,
                                                top_k_per_subquery)
               IN  IF IsExc(r) THEN Raised(g, r)
                   ELSE [g EXCEPT !.pc = "Retrieved", !.all_chunks = r.ok]
          [] f.pc = "Retrieved" ->
               LET r == deduplicate_chunks(f.all_chunks)
               IN  IF IsExc(r) THEN Raised(g, r)
                   ELSE [g EXCEPT !.pc = "Deduplicated", !.unique_chunks = r.ok]
          [] f.pc = "Deduplicated" ->
               LET r == get_full_docs(f.unique_chunks, documents, response.found)
               IN  IF IsExc(r) THEN Raised(g, r)
                   ELSE [g EXCEPT !.pc = "Expanded", !.unique_docs = r.ok]
          [] f.pc = "Expanded" ->
               LET r == truncate_context(f.unique_docs, max_context_length)
               IN  IF IsExc(r) THEN Raised(g, r)
                   ELSE [g EXCEPT !.pc = "Truncated", !.final_chunks = r.ok]
          [] f.pc = "Truncated" ->
               [g EXCEPT !.pc = "Formatted",
                         !.context_string = build_context_string(f.final_chunks)]
          [] f.pc = "Formatted" ->
               [g EXCEPT !.pc = "Answered",
                         !.final_answer =
                             generate_final_answer(f.query, f.subqueries,
                                 f.context_string, FALSE, response)]
          [] f.pc = "Answered" ->
               [g EXCEPT !.pc = "Done",
                         !.returned =
                             QueryResult([original_query |-> f.query,
                                          subqueries |-> f.subqueries,
                                          final_answer |-> f.final_answer,
                                          context |-> f.context_string])]
          [] f.pc = "Failed" ->
               [g EXCEPT !.returned =
                   QueryResult([original_query |-> f.query,
                                subqueries |-> PyList(<< >>),
                                chunks |-> PyList(<< >>),
                                unique_chunks |-> PyList(<< >>),
                                final_answer |-> PyStr("I apologize, but I encountered an error while processing your query: "
                                                       \o f.error.exc),
                                metadata |-> [error |-> f.error.exc]])]

\* what the external service of the stage that frame f is at can answer
Responses(f) ==
    CASE f.pc = "Start" ->
           { Raise("APIError"), Ok([content |-> "[\"a\",\"b\"]"]),
             Ok([content |-> "7"]) }
      [] f.pc = "SubqueriesGenerated" ->
           { [envs |-> [i \in 1..(IF HasLen(f.subqueries)
                                  THEN Len(PyIter(f.subqueries)) ELSE 0) |-> e]] :
               e \in LookupEnvs(top_k_per_subquery) }
      [] f.pc = "Deduplicated" -> { [found |-> b] : b \in BOOLEAN }
      [] f.pc = "Formatted" -> AnswerOutcomes
      [] OTHER -> { NotSet }

Running(f) == f.pc # "Done" /\ f.returned = NotSet

StoreFrameSharedChunks(frames, i, f) ==
    [j \in DOMAIN frames |->
        IF j = i THEN f ELSE [frames[j] EXCEPT !.all_chunks = f.all_chunks]]

\* the locals of an invocation belong to that invocation
StoreFrame(frames, i, f) == [frames EXCEPT ![i] = f]

InitConcurrent ==
    /\ top_k_per_subquery = TopK
    /\ max_context_length = MaxContextLength
    /\ pc = "Start"
    /\ query = "q1"
    /\ stream = FALSE
    /\ documents \in DocumentOrders
    /\ db_up = TRUE
    /\ llm_calls = << >>
    /\ lookups = << >>
    /\ subqueries = NotSet
    /\ all_chunks = NotSetList
    /\ unique_chunks = NotSetList
    /\ unique_docs = NotSetList
    /\ final_chunks = NotSetList
    /\ context_string = NotSetText
    /\ final_answer = NotSet
    /\ error = NotSet
    /\ returned = NotSet
    /\ find_calls = << >>
    /\ ep = "None"
    /\ recent = Ok(0)
    /\ status = 0
    /\ events = << >>
    /\ tasks = << >>
    /\ runs = [i \in Invocations |-> NewFrame(IF i = "A" THEN "q1" ELSE "q2")]

ConcurrentStage ==
    /\ \E i \in Invocations :
          /\ Running(runs[i])
          /\ \E response \in Responses(runs[i]) :
                runs' = StoreFrame(runs, i, StageStep(runs[i], response))
    /\ UNCHANGED << top_k_per_subquery, max_context_length, pc, query, stream,
                    documents, db_up, llm_calls, lookups, subqueries, all_chunks,
                    unique_chunks, unique_docs, final_chunks, context_string,
                    final_answer, error, returned, find_calls, ep, recent,
                    status, events, tasks >>

NextConcurrent == ConcurrentStage

SpecConcurrent == InitConcurrent /\ [][NextConcurrent]_vars

\* the same invocation run alone against the responses it has received
RECURSIVE Replay(_, _, _)
Replay(f, responses, k) ==
    IF k > Len(responses) THEN f
    ELSE Replay(StageStep(f, responses[k]), responses, k + 1)

Alone(f) == Replay(NewFrame(f.query), f.responses, 1)

RateLimit == 20

\* db.conversations.count_documents for the company over the last minute
RecentCounts == { Raise("OperationFailure"), Ok(19), Ok(20) }

is_rate_limited(count) ==
    IF IsExc(count) THEN FALSE ELSE count.ok >= RateLimit

\* the except clause of query_stream_endpoint answers every exception of
\* the try block, HTTPException included
StreamEndpointExcept(e) == 500

\* f"data: {json.dumps({'content': text})}\n\n" for texts without escapes
Event(text) == "data: {\"content\": \"" \o text \o "\"}\n\n"

DoneEvent == "data: [DONE]\n\n"

\* the texts the loop over result_generator gets, in order: the content of
\* each fragment of a stream, or each character of a string
Texts(result_generator) ==
    IF IsStr(result_generator)
    THEN [i \in 1..Len(result_generator.str) |->
             SubSeq(result_generator.str, i, i)]
    ELSE result_generator.fragments

StreamRaises(result_generator) ==
    /\ ~IsStr(result_generator)
    /\ result_generator.raises # NotSet

\* the attributes __init__ gives an AdvancedRAGRetriever
RetrieverAttributes == {"top_k_per_subquery", "max_context_length"}

GetAttribute(name) ==
    IF name \in RetrieverAttributes THEN Ok(NotSet) ELSE Raise("AttributeError")

InitStream ==
    /\ top_k_per_subquery = TopK
    /\ max_context_length = MaxContextLength
    /\ pc = "NotStarted"
    /\ query = "q1"
    /\ stream = TRUE
    /\ documents = CHOOSE o \in DocumentOrders : TRUE
    /\ db_up = TRUE
    /\ llm_calls = << >>
    /\ lookups = << >>
    /\ subqueries = NotSet
    /\ all_chunks = NotSetList
    /\ unique_chunks = NotSetList
    /\ unique_docs = NotSetList
    /\ final_chunks = NotSetList
    /\ context_string = NotSetText
    /\ final_answer = NotSet
    /\ error = NotSet
    /\ returned = NotSet
    /\ find_calls = << >>
    /\ ep = "Request"
    /\ recent \in RecentCounts
    /\ status = 0
    /\ events = << >>
    /\ tasks = << >>
    /\ runs = << >>

\* the start of the try block: the rate-limit check, then the pipeline
QueryStreamEndpoint ==
    /\ ep = "Request"
    /\ ep' = IF is_rate_limited(recent) THEN "Refused" ELSE "Pipeline"
    /\ status' = IF is_rate_limited(recent)
                 THEN StreamEndpointExcept(Raise("HTTPException(429)"))
                 ELSE status
    /\ pc' = IF is_rate_limited(recent) THEN pc ELSE "Start"
    \* request_count is a local of is_rate_limited
    /\ recent' = NotSet
    /\ UNCHANGED << top_k_per_subquery, max_context_length, query, stream,
                    documents, db_up, llm_calls, lookups, subqueries, all_chunks,
                    unique_chunks, unique_docs, final_chunks, context_string,
                    final_answer, error, returned, find_calls, events,
                    tasks, runs >>

\* retrieve_and_answer has returned or raised: the StreamingResponse, or the
\* except clause
ReturnResponse ==
    /\ ep = "Pipeline"
    /\ pc \in {"Done", "Failed"}
    /\ returned # NotSet
    /\ ep' = IF IsExc(returned) THEN "Refused" ELSE "Streaming"
    /\ status' = IF IsExc(returned) THEN StreamEndpointExcept(returned) ELSE 200
    /\ UNCHANGED << top_k_per_subquery, max_context_length, pc, query, stream,
                    documents, db_up, llm_calls, lookups, subqueries, all_chunks,
                    unique_chunks, unique_docs, final_chunks, context_string,
                    final_answer, error, returned, find_calls, recent, events,
                    tasks, runs >>

\* event_generator with the marker in a finally clause
EventGeneratorNextAlwaysMarks ==
    /\ ep = "Streaming"
    /\ LET texts == Texts(returned.ok)
           k == Len(events)
       IN  IF k < Len(texts)
           THEN /\ events' = Append(events, Event(texts[k + 1]))
                /\ ep' = ep
           ELSE /\ events' = Append(events, DoneEvent)
                /\ ep' = "Marked"
    /\ UNCHANGED << top_k_per_subquery, max_context_length, pc, query, stream,
                    documents, db_up, llm_calls, lookups, subqueries, all_chunks,
                    unique_chunks, unique_docs, final_chunks, context_string,
                    final_answer, error, returned, find_calls, recent, status,
                    tasks, runs >>

\* one turn of the loop of event_generator, or its end
EventGeneratorNext ==
    /\ ep = "Streaming"
    /\ LET texts == Texts(returned.ok)
           k == Len(events)
       IN  IF k < Len(texts)
           THEN /\ events' = Append(events, Event(texts[k + 1]))
                /\ ep' = ep
           ELSE IF StreamRaises(returned.ok)
                THEN /\ events' = events
                     /\ ep' = "Aborted"
                ELSE /\ events' = Append(events, DoneEvent)
                     /\ ep' = "Marked"
    /\ UNCHANGED << top_k_per_subquery, max_context_length, pc, query, stream,
                    documents, db_up, llm_calls, lookups, subqueries, all_chunks,
                    unique_chunks, unique_docs, final_chunks, context_string,
                    final_answer, error, returned, find_calls, recent, status,
                    tasks, runs >>

\* event_generator after the marker: the conversation details are read off
\* the retriever and the save is handed to a background task
Bookkeeping ==
    /\ ep = "Marked"
    /\ LET details == GetAttribute("conversation_details")
       IN  IF IsExc(details)
           THEN /\ ep' = "Aborted"
                /\ tasks' = tasks
           ELSE /\ ep' = "Closed"
                /\ tasks' = Append(tasks,
                      [coroutine |-> "save_conversation_details",
                       query |-> query, companyId |-> "key"])
    /\ UNCHANGED << top_k_per_subquery, max_context_length, pc, query, stream,
                    documents, db_up, llm_calls, lookups, subqueries, all_chunks,
                    unique_chunks, unique_docs, final_chunks, context_string,
                    final_answer, error, returned, find_calls, recent, status,
                    events, runs >>

NextStream ==
    \/ QueryStreamEndpoint
    \/ Next
    \/ ReturnResponse
    \/ EventGeneratorNext
    \/ Bookkeeping

SpecStream == InitStream /\ [][NextStream]_vars

(***************************************************************************)
(* Claims about the streaming endpoint, checked under SpecStream.          *)
(***************************************************************************)
\* the events of all the texts the answer yields, in production order
ProducedEvents ==
    [i \in 1..Len(Texts(returned.ok)) |-> Event(Texts(returned.ok)[i])]

\* the answer is a stream that raises after its last fragment
AnswerFails ==
    /\ DOMAIN returned.ok # {"str"}
    /\ returned.ok.raises # NotSet

Markers == { i \in 1..Len(events) : events[i] = DoneEvent }

\* the generator has ended, by returning or by an exception
StreamEnded == status = 200 /\ ep \in {"Closed", "Aborted"}

\* C23 as stated: whenever the event stream has ended it consists of every
\* fragment in production order followed by exactly one "[DONE]" marker.
C23_MarkerExactlyOnce ==
    StreamEnded => events = ProducedEvents \o <<DoneEvent>>

\* the number of texts the answer yields, and the event of the i-th
ProducedCount ==
    IF DOMAIN returned.ok = {"str"}
    THEN Len(returned.ok.str) ELSE Len(returned.ok.fragments)

ProducedEvent(i) ==
    IF DOMAIN returned.ok = {"str"}
    THEN Event(SubSeq(returned.ok.str, i, i))
    ELSE Event(returned.ok.fragments[i])

\* C23 amended: the marker is never emitted twice and only as the last event;
\* while the generator runs the events are the fragments so far, in
\* production order; when the answer is drained without raising, the stream
\* ends with every fragment in order and then the marker; when the answer
\* raises while it is consumed, the stream ends with the fragments produced
\* before the failure and without a marker.
C23_MarkerAfterDrainedStream ==
    status = 200 =>
        LET n == Len(events)
            marked == Markers # {}
        IN  /\ Markers \subseteq {n}
            /\ marked => ~AnswerFails /\ n = ProducedCount + 1
            /\ ~marked => n <= ProducedCount
            /\ (~marked /\ n > 0) => events[n] = ProducedEvent(n)
            /\ ep # "Streaming" =>
                  /\ marked <=> ~AnswerFails
                  /\ \A i \in 1..ProducedCount : events[i] = ProducedEvent(i)

C23_Witness ==
    /\ StreamEnded
    /\ ~AnswerFails
    /\ events = <<Event("ans"), Event("wer"), DoneEvent>>

\* a stream that raised after its first fragment
C23_WitnessFailing ==
    /\ StreamEnded
    /\ AnswerFails
    /\ events = <<Event("ans")>>

\* C24: once the answer has been drained and the marker emitted, the save of
\* the conversation details is started as a background task, never before
\* the marker, and the generator ends without an error.
C24_BookkeepingStarted ==
    /\ tasks # << >> => Markers # {}
    /\ (StreamEnded /\ Markers # {}) =>
          /\ Len(tasks) = 1
          /\ tasks[1].coroutine = "save_conversation_details"
          /\ ep = "Closed"

MaxExpandChunks == 3

ExpandUniverse ==
    { [chunk_id |-> c, document_id |-> d] :
        c \in {"c1", "c2"}, d \in {"d1", "d2", "unknown"} }

InitExpand ==
    /\ top_k_per_subquery = TopK
    /\ max_context_length = MaxContextLength
    /\ pc = "Deduplicated"
    /\ query = "q1"
    /\ stream = FALSE
    /\ documents \in DocumentOrders
    /\ db_up = TRUE
    /\ llm_calls = << >>
    /\ lookups = << >>
    /\ subqueries = NotSet
    /\ all_chunks = NotSetList
    /\ \E n \in 0..MaxExpandChunks : unique_chunks \in [1..n -> ExpandUniverse]
    /\ unique_docs = NotSetList
    /\ final_chunks = NotSetList
    /\ context_string = NotSetText
    /\ final_answer = NotSet
    /\ error = NotSet
    /\ returned = NotSet
    /\ find_calls = << >>
    /\ NoEndpoint

NextExpand == GetFullDocs

SpecExpand == InitExpand /\ [][NextExpand]_vars

\* the distinct document_id values of the chunks given to get_full_docs
ReferencedDocuments ==
    { unique_chunks[i].document_id : i \in 1..Len(unique_chunks) }

\* C25: get_full_docs performs exactly one batch lookup, none before it
\* runs, and the identifiers requested are exactly the distinct document_id
\* values of its chunks.
C25_OneBatchLookup ==
    /\ pc = "Deduplicated" => find_calls = << >>
    /\ pc # "Deduplicated" =>
          /\ Len(find_calls) = 1
          /\ find_calls[1] = ReferencedDocuments

C25_Witness ==
    /\ pc = "Expanded"
    /\ Len(unique_chunks) = 3
    /\ unique_chunks[1].document_id = unique_chunks[3].document_id
    /\ find_calls = << {"d1", "unknown"} >>
    /\ Len(unique_docs) = 1

(***************************************************************************)
(* The blocks of the context in a pipeline run, checked under Spec.        *)
(***************************************************************************)
\* the deduplicated chunk that references a document
ChunkReferencing(doc) ==
    CHOOSE j \in 1..Len(unique_chunks) :
        unique_chunks[j].document_id = doc.document_id

\* the block the claim describes for the i-th surviving document
BlockOfSource(i, doc) ==
    "\n<context_chunk id=\"" \o ToString(i) \o "\" score=\""
    \o Format3f(unique_chunks[ChunkReferencing(doc)].score)
    \o "\" source_url=\"" \o doc.url \o "\" title=\"" \o doc.title
    \o "\">\n" \o FStr(doc.content) \o "\n</context_chunk>"

\* C26: in a pipeline run the i-th block of the context carries the score of
\* the deduplicated chunk that references the i-th surviving document, and
\* the url and title of that document.
C26_BlocksCarryScoreAndSource ==
    (context_string # NotSetText /\ final_chunks # << >>) =>
        context_string =
            Join("\n", [i \in 1..Len(final_chunks) |->
                           BlockOfSource(i, final_chunks[i])])

(***************************************************************************)
(* truncate_context followed by build_context_string, as retrieve_and_     *)
(* answer calls them, on the document lists and budgets of InitTruncate.   *)
(***************************************************************************)
NextContext == TruncateContext \/ BuildContextString

SpecContext == InitTruncate /\ [][NextContext]_vars

\* C29: when the first document is longer than max_context_length,
\* truncate_context returns the empty list whatever documents follow, and
\* the context built from it is the sentinel "No relevant context found.".
C29_OversizedFirstDocument ==
    (unique_docs # << >> /\ ContentLength(unique_docs[1]) > max_context_length) =>
        /\ pc \in {"Truncated", "Formatted"} => final_chunks = << >>
        /\ pc = "Formatted" => context_string = "No relevant context found."

\* the first document is too long, the two after it would fit
C29_Witness ==
    /\ pc = "Formatted"
    /\ max_context_length = 5
    /\ Len(unique_docs) = 3
    /\ ContentLength(unique_docs[1]) = 6
    /\ ContentLength(unique_docs[2]) = 2
    /\ ContentLength(unique_docs[3]) = 3
    /\ final_chunks = << >>
    /\ context_string = "No relevant context found."

====
